---- MODULE Spec2Model ----
(***************************************************************************)
(* Half-edge mesh storage of hedge-cpp: the four element_vector_t arenas   *)
(* of basic_kernel_t (generational handles, free-cell priority queue) and  *)
(* the mesh_t counts built on them.                                        *)
(***************************************************************************)
EXTENDS Bags, FiniteSets, Integers, Sequences, TLC

\* ------------------------------------------------------------------------
\* Bounds of the model.

\* std::numeric_limits<generation_t>::max() of a narrowed generation_t:
\* generations are counted modulo max_generation + 1.
max_generation == 3

\* Largest offset of the handles callers pass to remove and swap.
MaxOffset == 2

\* Width in bits of the narrowed size_t the counts are computed in.
SizeBits == 6

\* Largest number of calls made on the kernel in one run.
MaxCalls == 5

\* ------------------------------------------------------------------------
\* Types.

\* The four element_vector_t members of basic_kernel_t.
Kinds == {"vertex", "face", "edge", "point"}

\* Payloads of the records callers emplace: a point_t built from one of two
\* positions, and the default constructed edge_t(), vertex_t() and face_t().
\* The default constructed dummy cell holds DefaultVal too.
DefaultVal == 0
Vals(k) == IF k = "point" THEN {1, 2} ELSE {DefaultVal}

\* index_t: explicit index_t(offset, generation).
index_t(o, g) == [offset |-> o, generation |-> g]

\* index_t(): the invalid handle, offset 0 and generation 0.
invalid == index_t(0, 0)

\* explicit operator bool of index_t.
truthy(index) == index.offset > 0

\* element_t with its payload: status active, generation 1.
element_t(v) == [status |-> "active", generation |-> 1, val |-> v]

\* The absent result of get.
nullptr == [status |-> "nullptr", generation |-> 0, val |-> DefaultVal]

\* generation_t arithmetic: unsigned, wrapping at max_generation + 1.
gen_incr(g) == (g + 1) % (max_generation + 1)

\* size_t arithmetic: unsigned, wrapping at 2^SizeBits.
size_t(n) == n % (2 ^ SizeBits)

VARIABLES
  collection,   \* [Kinds -> Seq(element)]: element_vector_t::collection
  free_cells,   \* [Kinds -> bag of index_t]: element_vector_t::free_cells
  last,         \* the last call: its operation, its arena, whether it
                \* resolved its index (a remove, a swap) or reused a cell (an
                \* emplace), the index it resolved or returned, the payload
                \* (the second handle for a swap that resolved both)
  live,         \* [Kinds -> set of [index, val]]: handles emplace returned
                \* whose cell was not removed since, with the record emplaced
  stale,        \* [Kinds -> set of index_t]: handles emplace returned whose
                \* cell was removed since
  calls,        \* number of calls made so far
  walk,         \* the make_face call in progress: its position (pc), its
                \* root_eindex, findex and current_index
  builder       \* the edge_loop_builder_t the caller holds: its four
                \* members (loop), the constructor that made it (from), the
                \* number of add_point calls made on it (points) and the
                \* handles they were given (given), the number of close
                \* calls made on it (closes), whether its constructor
                \* assigned no member (failed), whether a close call on
                \* it has connected the loop (closed) and the kernel's
                \* storage when it was constructed (before)

vars == <<calls, walk, collection, free_cells, last, live, stale, builder>>

\* ------------------------------------------------------------------------
\* element_vector_t

\* element_vector_t::get(offset_t): the cell at offset, or nullptr.
get_offset(cells, offset) ==
  IF offset < Len(cells) THEN cells[offset + 1] ELSE nullptr

\* get as it would be without the generation 0 wildcard: every index is
\* compared with the cell's generation.
get_strict(cells, index) ==
  LET element == get_offset(cells, index.offset) IN
  IF element # nullptr /\ element.generation # index.generation
    THEN nullptr ELSE element

\* element_vector_t::get(TElementIndex): the cell at index.offset unless the
\* index carries a generation (non zero) that differs from the cell's.
get(cells, index) ==
  LET element == get_offset(cells, index.offset) IN
  IF element # nullptr /\ index.generation # 0
    THEN IF element.generation # index.generation THEN nullptr ELSE element
    ELSE element

\* element_vector_t::count.
count(cells, free) == size_t(Len(cells) - BagCardinality(free))

\* top as it would be with std::less<>: an entry no other entry is above.
tops_highest(free) ==
  {i \in BagToSet(free) : \A j \in BagToSet(free) : ~(i.offset < j.offset)}

\* std::priority_queue<..., std::greater<>>::top over operator> of index_t,
\* which compares offsets only: any entry no other entry is below.
tops(free) ==
  {i \in BagToSet(free) : \A j \in BagToSet(free) : ~(i.offset > j.offset)}

\* emplace as it would be if the reused record were written to the back of
\* the collection instead of the cell of the popped index.
emplace_at_back(cells, free, element, top) ==
  IF free # EmptyBag
    THEN [cells |-> [cells EXCEPT ![Len(cells)] =
                       [element EXCEPT !.generation = top.generation]],
          free  |-> free (-) SetToBag({top}),
          index |-> top]
    ELSE [cells |-> Append(cells, element),
          free  |-> free,
          index |-> index_t(Len(cells), element.generation)]

\* element_vector_t::emplace: reuse the top free cell (top is the entry the
\* queue yields) or append. Yields the new cells, queue and returned index.
emplace(cells, free, element, top) ==
  IF free # EmptyBag
    THEN [cells |-> [cells EXCEPT ![top.offset + 1] =
                       [element EXCEPT !.generation = top.generation]],
          free  |-> free (-) SetToBag({top}),
          index |-> top]
    ELSE [cells |-> Append(cells, element),
          free  |-> free,
          index |-> index_t(Len(cells), element.generation)]

\* remove as it would be without the generation bump of the cell.
remove_keeps_generation(cells, free, index) ==
  IF get(cells, index) # nullptr
    THEN [cells |-> [cells EXCEPT ![index.offset + 1].status = "inactive"],
          free  |-> free (+) SetToBag({index_t(index.offset,
                                       cells[index.offset + 1].generation)})]
    ELSE [cells |-> cells, free |-> free]

\* element_vector_t::remove: when the index resolves, mark the cell inactive,
\* bump its generation (max_generation becomes 1) and queue the cell.
remove(cells, free, index) ==
  IF get(cells, index) # nullptr
    THEN LET g0 == gen_incr(cells[index.offset + 1].generation)
             g  == IF g0 = max_generation THEN 1 ELSE g0
         IN [cells |-> [cells EXCEPT ![index.offset + 1] =
                          [@ EXCEPT !.status = "inactive", !.generation = g]],
             free  |-> free (+) SetToBag({index_t(index.offset, g)})]
    ELSE [cells |-> cells, free |-> free]

\* element_vector_t::swap: when both resolve, bump both generations (no wrap
\* handling) and exchange the two cells.
swap(cells, aindex, bindex) ==
  IF get(cells, aindex) # nullptr /\ get(cells, bindex) # nullptr
    THEN LET a  == aindex.offset + 1
             b  == bindex.offset + 1
             c1 == [cells EXCEPT ![a].generation = gen_incr(@)]
             c2 == [c1 EXCEPT ![b].generation = gen_incr(@)]
         IN [c2 EXCEPT ![a] = c2[b], ![b] = c2[a]]
    ELSE cells

\* ------------------------------------------------------------------------
\* basic_kernel_t and mesh_t

\* basic_kernel_t::get(index): the arena of the index's type resolves it.
kernel_get(k, index) == get(collection[k], index)

\* basic_kernel_t::point_count / vertex_count / face_count / edge_count.
kernel_count(k) == count(collection[k], free_cells[k])

\* The counts of mesh_t as they would be if the dummy cell were counted.
mesh_count_with_dummy(k) == size_t(kernel_count(k))

\* mesh_t::point_count / vertex_count / edge_count / face_count.
mesh_count(k) == size_t(kernel_count(k) - 1)

\* Handles a caller can pass: any offset up to MaxOffset, any generation
\* (0 is the generation of index_t(offset)).
Indexes ==
  {index_t(o, g) : o \in 0..MaxOffset, g \in 0..max_generation}

\* No make_face call in progress.
idle == [pc |-> "idle", root_eindex |-> invalid, findex |-> invalid,
         current_index |-> invalid]

\* edge_loop_builder_t with its members default constructed: the state of a
\* builder whose constructor assigned none of them.
edge_loop_builder_t ==
  [_root_eindex |-> invalid, _last_eindex |-> invalid,
   _root_pindex |-> invalid, _last_pindex |-> invalid]

\* No edge_loop_builder_t was constructed yet.
no_builder ==
  [loop |-> edge_loop_builder_t, from |-> "none", points |-> 0,
   before |-> <<>>, given |-> <<>>, closes |-> 0, failed |-> FALSE,
   closed |-> FALSE]

\* mesh_t::mesh_t(): basic_kernel_t with four arenas holding the dummy cell.
Init ==
  /\ collection = [k \in Kinds |-> <<element_t(DefaultVal)>>]
  /\ free_cells = [k \in Kinds |-> EmptyBag]
  /\ last = [op |-> "init", kind |-> "point", index |-> invalid,
             hit |-> FALSE, val |-> DefaultVal]
  /\ live = [k \in Kinds |-> {}]
  /\ stale = [k \in Kinds |-> {}]
  /\ calls = 0
  /\ walk = idle
  /\ builder = no_builder

\* basic_kernel_t::emplace / insert of a record built by its constructor.
Emplace(k, v) ==
  /\ calls < MaxCalls
  /\ calls' = calls + 1
  /\ \E top \in IF free_cells[k] = EmptyBag THEN {invalid}
                ELSE tops(free_cells[k]) :
       LET r == emplace(collection[k], free_cells[k], element_t(v), top) IN
       /\ collection' = [collection EXCEPT ![k] = r.cells]
       /\ free_cells' = [free_cells EXCEPT ![k] = r.free]
       /\ last' = [op |-> "emplace", kind |-> k, index |-> r.index,
                   hit |-> free_cells[k] # EmptyBag, val |-> v]
       /\ live' = [live EXCEPT ![k] = @ \cup {[index |-> r.index, val |-> v]}]
       /\ stale' = stale
       /\ UNCHANGED <<walk, builder>>

\* basic_kernel_t::remove.
Remove(k, index) ==
  LET r   == remove(collection[k], free_cells[k], index)
      hit == get(collection[k], index) # nullptr
      gone == {e \in live[k] : hit /\ e.index.offset = index.offset}
  IN
  /\ calls < MaxCalls
  /\ calls' = calls + 1
  /\ collection' = [collection EXCEPT ![k] = r.cells]
  /\ free_cells' = [free_cells EXCEPT ![k] = r.free]
  /\ last' = [op |-> "remove", kind |-> k,
              index |-> IF hit THEN index ELSE invalid, hit |-> hit,
              val |-> DefaultVal]
  /\ live' = [live EXCEPT ![k] = @ \ gone]
  /\ stale' = [stale EXCEPT ![k] = @ \cup {e.index : e \in gone}]
  /\ UNCHANGED <<walk, builder>>

\* element_vector_t::swap on one arena.
Swap(k, aindex, bindex) ==
  LET hit  == /\ get(collection[k], aindex) # nullptr
              /\ get(collection[k], bindex) # nullptr
      gone == {e \in live[k] :
                 hit /\ e.index.offset \in {aindex.offset, bindex.offset}}
  IN
  /\ calls < MaxCalls
  /\ calls' = calls + 1
  /\ collection' = [collection EXCEPT ![k] = swap(@, aindex, bindex)]
  /\ last' = [op |-> "swap", kind |-> k,
              index |-> IF hit THEN aindex ELSE invalid, hit |-> hit,
              val |-> IF hit THEN bindex ELSE DefaultVal]
  /\ live' = [live EXCEPT ![k] = @ \ gone]
  /\ stale' = [stale EXCEPT ![k] = @ \cup {e.index : e \in gone}]
  /\ free_cells' = free_cells
  /\ UNCHANGED <<walk, builder>>

Next ==
  \/ \E k \in Kinds : \E v \in Vals(k) : Emplace(k, v)
  \/ \E k \in Kinds : \E index \in Indexes : Remove(k, index)

Spec == Init /\ [][Next]_vars

\* One element_vector_t with all its operations, swap included (the kernel
\* never calls swap; it is an operation of the arena alone).
NextSwap ==
  \/ \E v \in Vals("point") : Emplace("point", v)
  \/ \E index \in Indexes : Remove("point", index)
  \/ \E a, b \in Indexes : Swap("point", a, b)

SpecSwap == Init /\ [][NextSwap]_vars

\* ------------------------------------------------------------------------
\* Properties.

\* Every index of interest: every offset a collection can reach within
\* MaxCalls calls and one past it, with every generation.
AllIndexes ==
  {index_t(o, g) : o \in 0..(MaxCalls + 1), g \in 0..max_generation}

\* The generation stored in the cell at an offset.
generation_at(cells, offset) == cells[offset + 1].generation

\* C1 as claimed: for every handle h that resolves, right after remove(h) the
\* call get(h) returns absent and the generation of h's cell is greater than
\* before, or has wrapped around to 1.
C1_RemoveInvalidatesEveryHandle ==
  [][(last'.op = "remove" /\ last'.hit) =>
       LET k == last'.kind
           h == last'.index
       IN /\ get(collection'[k], h) = nullptr
          /\ \/ generation_at(collection'[k], h.offset)
                  > generation_at(collection[k], h.offset)
             \/ generation_at(collection'[k], h.offset) = 1]_vars

\* C1 amended: for every handle h with a non zero generation that resolves,
\* right after remove(h) the call get(h) returns absent; and for every handle
\* that resolves (generation 0 included) the generation of its cell is
\* greater than before the removal, or has wrapped around to 1, never to 0.
C1_RemoveInvalidatesHandle ==
  [][(last'.op = "remove" /\ last'.hit) =>
       LET k == last'.kind
           h == last'.index
       IN /\ h.generation # 0 => get(collection'[k], h) = nullptr
          /\ generation_at(collection'[k], h.offset) # 0
          /\ \/ generation_at(collection'[k], h.offset)
                  > generation_at(collection[k], h.offset)
             \/ generation_at(collection'[k], h.offset) = 1]_vars

\* C1 witness: a remove has just resolved a handle that carries a generation,
\* and the handle no longer resolves.
C1_Witness ==
  /\ last.op = "remove" /\ last.hit
  /\ last.index.generation # 0
  /\ truthy(last.index)
  /\ get(collection[last.kind], last.index) = nullptr

\* C2: no two live handles of an arena share an offset, and each live handle
\* resolves to the record that was emplaced for it.
C2_LiveHandlesAreUnique ==
  \A k \in Kinds :
    /\ \A e1, e2 \in live[k] :
         e1.index.offset = e2.index.offset => e1 = e2
    /\ \A e \in live[k] :
         /\ get(collection[k], e.index) # nullptr
         /\ get(collection[k], e.index).val = e.val
         /\ get(collection[k], e.index).status = "active"

\* C3: a handle emplace returned whose cell was removed since never resolves
\* again.
C3_StaleHandleStaysStale ==
  \A k \in Kinds : \A h \in stale[k] : get(collection[k], h) = nullptr

freed_cells(k) ==
  {o \in 0..(Len(collection[k]) - 1) :
     collection[k][o + 1].status = "inactive"}

\* C5: each mesh_t count is the number of records emplaced and not since
\* removed, which is the stored cells minus the dummy cell minus the cells
\* currently freed.
C5_CountsAreLiveRecords ==
  \A k \in Kinds :
    /\ mesh_count(k) = Cardinality(live[k])
    /\ mesh_count(k) =
         Len(collection[k]) - 1 - Cardinality(freed_cells(k) \ {0})

\* The offsets queued in an arena's free_cells.
free_offsets(free) == {i.offset : i \in BagToSet(free)}

\* C6: emplace reuses the lowest free cell whenever the free_cells queue
\* holds one (the collection keeps its size), and otherwise appends a cell at
\* the offset equal to the size of the collection.
C6_EmplaceReusesLowestFreeCell ==
  [][last'.op = "emplace" =>
       LET k  == last'.kind
           o  == last'.index.offset
           fo == free_offsets(free_cells[k])
       IN IF fo # {}
            THEN /\ o \in fo
                 /\ \A f \in fo : o <= f
                 /\ Len(collection'[k]) = Len(collection[k])
                 /\ last'.hit
            ELSE /\ o = Len(collection[k])
                 /\ Len(collection'[k]) = Len(collection[k]) + 1
                 /\ ~last'.hit]_vars

\* C6 witness: an emplace has just reused a free cell of the points arena
\* while a free cell of a higher offset stays queued.
C6_Witness ==
  /\ last.op = "emplace" /\ last.hit /\ last.kind = "point"
  /\ truthy(last.index)
  /\ \E f \in free_offsets(free_cells["point"]) : f > last.index.offset

\* C7: get on the index emplace returned yields a record with the emplaced
\* contents whose generation is the index's generation; when a free cell is
\* reused, that generation is the one stored in the cell since its removal.
C7_EmplaceKeepsCellGeneration ==
  [][last'.op = "emplace" =>
       LET k   == last'.kind
           h   == last'.index
           rec == get(collection'[k], h)
       IN /\ rec # nullptr
          /\ rec.val = last'.val
          /\ rec.generation = h.generation
          /\ last'.hit =>
               h.generation = generation_at(collection[k], h.offset)]_vars

\* C8: get(h) returns the cell at h.offset exactly when h.offset is below the
\* size of the collection and h.generation is 0 or the cell's generation; it
\* returns absent in every other case.
C8_GetResolvesExactly ==
  \A k \in Kinds : \A h \in AllIndexes :
    LET in_range == h.offset < Len(collection[k])
        matches  == \/ h.generation = 0
                    \/ h.generation = generation_at(collection[k], h.offset)
    IN IF in_range /\ matches
         THEN kernel_get(k, h) = collection[k][h.offset + 1]
         ELSE kernel_get(k, h) = nullptr

\* C8 witness: a points arena where an index resolves by its generation, one
\* resolves by generation 0 a cell of another generation than 1, one fails by
\* its generation and one fails by its offset.
C8_Witness ==
  /\ Len(collection["point"]) = 2
  /\ generation_at(collection["point"], 1) = 2
  /\ kernel_get("point", index_t(1, 2)) # nullptr
  /\ kernel_get("point", index_t(1, 0)) # nullptr
  /\ kernel_get("point", index_t(1, 1)) = nullptr
  /\ kernel_get("point", index_t(2, 0)) = nullptr

\* C9: cell 0 of each arena stays the reserved dummy: emplace never returns
\* an index of offset 0 and never overwrites cell 0, so every live record is
\* at an offset >= 1.
C9_DummyCellStaysReserved ==
  /\ last.op = "emplace" => truthy(last.index)
  /\ \A k \in Kinds :
       /\ \A e \in live[k] : truthy(e.index)
       /\ collection[k][1].val = DefaultVal

\* C10: the generation stored in a cell is never 0.
C10_GenerationNeverZero ==
  \A k \in Kinds : \A i \in 1..Len(collection[k]) :
    collection[k][i].generation # 0

\* ------------------------------------------------------------------------
\* The half-edge records and the topology operations of kernel_t.

\* Bounds of the kernel runs. SpecMesh: up to MaxMeshCalls calls with the
\* handles of offsets up to MaxArgOffset. SpecFace: up to MaxFaceCalls calls
\* that build up to MaxPairs edge pairs and MaxPoints points and connect
\* the edges of offsets up to MaxLoop with the handles the kernel returned.
MaxArgOffset == 2
MaxMeshCalls == 4
MaxFaceCalls == 7
MaxPairs == 2
MaxPoints == 1
MaxLoop == 3

\* edge_t(): five default constructed handles.
edge_t == [vertex_index |-> invalid, face_index |-> invalid,
           next_index |-> invalid, prev_index |-> invalid,
           adjacent_index |-> invalid]

\* face_t(): no root edge, an empty edge_index_t::set_t.
face_t == [root_edge_index |-> invalid, edges |-> {}]

\* vertex_t(): no point, no edge.
vertex_t == [point_index |-> invalid, edge_index |-> invalid]

\* point_t(position): an empty vertex_index_t::set_t.
point_t(p) == [position |-> p, vertices |-> {}]

\* The default constructed record of each arena (the dummy cell holds it).
default_t(k) ==
  CASE k = "edge" -> edge_t
    [] k = "face" -> face_t
    [] k = "vertex" -> vertex_t
    [] k = "point" -> point_t(0)

\* The kernel's storage as one value: the four collections and queues.
kernel == [collection |-> collection, free_cells |-> free_cells]

\* The entries emplace can pop from a queue (none when it is empty).
top_choices(free) == IF free = EmptyBag THEN {invalid} ELSE tops(free)

\* basic_kernel_t::insert / emplace on arena k of kernel state kn.
kernel_emplace(kn, k, element, top) ==
  LET r == emplace(kn.collection[k], kn.free_cells[k], element, top) IN
  [kn |-> [collection |-> [kn.collection EXCEPT ![k] = r.cells],
           free_cells |-> [kn.free_cells EXCEPT ![k] = r.free]],
   index |-> r.index]

\* basic_kernel_t::remove on arena k of kernel state kn.
kernel_remove(kn, k, index) ==
  LET r == remove(kn.collection[k], kn.free_cells[k], index) IN
  [collection |-> [kn.collection EXCEPT ![k] = r.cells],
   free_cells |-> [kn.free_cells EXCEPT ![k] = r.free]]

\* The cell a pointer returned by kernel_t::get(index) points to.
deref(kn, k, index) == get(kn.collection[k], index)

\* A store through the pointer get(index) returned: ptr->field = value.
store(kn, k, index, field, value) ==
  [kn EXCEPT !.collection[k][index.offset + 1].val[field] = value]

\* kernel_t::make_edge_pair: two inserts of edge_t(), then the two stores of
\* adjacent_index through the pointers get returned; top0 and top1 are the
\* entries the two inserts pop. fault tells that one of the pointers is null:
\* inserted is the storage before the stores, kn the storage with the stores
\* through the pointers that are not null.
make_edge_pair(kn, top0, top1) ==
  LET r0 == kernel_emplace(kn, "edge", element_t(edge_t), top0)
      r1 == kernel_emplace(r0.kn, "edge", element_t(edge_t), top1)
      eindex0 == r0.index
      eindex1 == r1.index
      e0 == deref(r1.kn, "edge", eindex0)
      e1 == deref(r1.kn, "edge", eindex1)
      k0 == IF e0 = nullptr THEN r1.kn
            ELSE store(r1.kn, "edge", eindex0, "adjacent_index", eindex1)
      k1 == IF e1 = nullptr THEN k0
            ELSE store(k0, "edge", eindex1, "adjacent_index", eindex0)
  IN [kn |-> k1, inserted |-> r1.kn, index |-> eindex0, other |-> eindex1,
      fault |-> e0 = nullptr \/ e1 = nullptr]

\* The stores of connect_edges once the vertex is allocated.
connect_stores(kn, eindex, pindex, next_eindex, vindex) ==
  LET k1 == store(kn, "edge", eindex, "next_index", next_eindex)
      k2 == store(k1, "edge", next_eindex, "vertex_index", vindex)
      k3 == store(k2, "edge", next_eindex, "prev_index", eindex)
  IN store(k3, "point", pindex, "vertices",
           deref(k3, "point", pindex).val.vertices \cup {vindex})

\* connect_edges as it would be if the vertex were allocated before the three
\* pointers are checked.
connect_edges_allocating_first(kn, eindex, pindex, next_eindex, top) ==
  LET vertex == [vertex_t EXCEPT !.point_index = pindex,
                                 !.edge_index = next_eindex]
      r == kernel_emplace(kn, "vertex", element_t(vertex), top)
  IN IF ~truthy(eindex) \/ ~truthy(pindex) \/ ~truthy(next_eindex)
       THEN [kn |-> kn, index |-> invalid, valid |-> FALSE]
     ELSE IF \/ deref(kn, "edge", eindex) = nullptr
             \/ deref(kn, "point", pindex) = nullptr
             \/ deref(kn, "edge", next_eindex) = nullptr
       THEN [kn |-> r.kn, index |-> invalid, valid |-> FALSE]
     ELSE IF ~truthy(r.index)
       THEN [kn |-> r.kn, index |-> invalid, valid |-> TRUE]
     ELSE [kn |-> connect_stores(r.kn, eindex, pindex, next_eindex, r.index),
           index |-> r.index, valid |-> TRUE]

\* kernel_t::connect_edges: the three handles must be truthy and resolve;
\* then a vertex is emplaced (top is the entry the emplace pops) and, when
\* its index is truthy, the edges and the point are wired. valid tells
\* whether the three handles passed the checks.
connect_edges(kn, eindex, pindex, next_eindex, top) ==
  IF ~truthy(eindex) \/ ~truthy(pindex) \/ ~truthy(next_eindex)
    THEN [kn |-> kn, index |-> invalid, valid |-> FALSE]
  ELSE IF \/ deref(kn, "edge", eindex) = nullptr
          \/ deref(kn, "point", pindex) = nullptr
          \/ deref(kn, "edge", next_eindex) = nullptr
    THEN [kn |-> kn, index |-> invalid, valid |-> FALSE]
  ELSE LET vertex == [vertex_t EXCEPT !.point_index = pindex,
                                      !.edge_index = next_eindex]
           r == kernel_emplace(kn, "vertex", element_t(vertex), top)
       IN IF ~truthy(r.index)
            THEN [kn |-> r.kn, index |-> invalid, valid |-> TRUE]
            ELSE [kn |-> connect_stores(r.kn, eindex, pindex, next_eindex,
                                        r.index),
                  index |-> r.index, valid |-> TRUE]

\* kernel_t::make_face up to its loop: an unresolvable root returns the
\* invalid handle; otherwise a face is emplaced (top is the entry the emplace
\* pops), its root_edge_index is stored and the walk starts at the root.
make_face_enter(kn, root_eindex, top) ==
  IF deref(kn, "edge", root_eindex) = nullptr
    THEN [kn |-> kn, walk |-> idle, done |-> TRUE, index |-> invalid,
          exit |-> "invalid_root"]
    ELSE LET r == kernel_emplace(kn, "face", element_t(face_t), top) IN
         [kn |-> store(r.kn, "face", r.index, "root_edge_index", root_eindex),
          walk |-> [pc |-> "walking", root_eindex |-> root_eindex,
                    findex |-> r.index, current_index |-> root_eindex],
          done |-> FALSE, index |-> r.index, exit |-> "walking"]

\* make_face as it would be if its two failing exits inside the loop gave
\* the face back to the arena.
make_face_step_releasing(kn, w) ==
  IF ~truthy(w.current_index)
    THEN [kn |-> kn, walk |-> idle, done |-> TRUE, index |-> w.findex,
          exit |-> "ended"]
  ELSE IF deref(kn, "edge", w.current_index) = nullptr
    THEN [kn |-> kernel_remove(kn, "face", w.findex), walk |-> idle,
          done |-> TRUE, index |-> invalid, exit |-> "disconnected"]
  ELSE
    LET k1 == store(kn, "face", w.findex, "edges",
                    deref(kn, "face", w.findex).val.edges
                      \cup {w.current_index})
        k2 == store(k1, "edge", w.current_index, "face_index", w.findex)
        next_eindex == deref(k2, "edge", w.current_index).val.next_index
    IN IF next_eindex = w.current_index
         THEN [kn |-> kernel_remove(k2, "face", w.findex), walk |-> idle,
               done |-> TRUE, index |-> invalid, exit |-> "degenerate"]
       ELSE IF next_eindex = w.root_eindex
         THEN [kn |-> k2, walk |-> idle, done |-> TRUE, index |-> w.findex,
               exit |-> "closed"]
       ELSE [kn |-> k2, walk |-> [w EXCEPT !.current_index = next_eindex],
             done |-> FALSE, index |-> w.findex, exit |-> "walking"]

\* One test of the while condition of make_face and, when it holds, one
\* iteration of the loop.
make_face_step(kn, w) ==
  IF ~truthy(w.current_index)
    THEN [kn |-> kn, walk |-> idle, done |-> TRUE, index |-> w.findex,
          exit |-> "ended"]
  ELSE IF deref(kn, "edge", w.current_index) = nullptr
    THEN [kn |-> kn, walk |-> idle, done |-> TRUE, index |-> invalid,
          exit |-> "disconnected"]
  ELSE
    LET k1 == store(kn, "face", w.findex, "edges",
                    deref(kn, "face", w.findex).val.edges
                      \cup {w.current_index})
        k2 == store(k1, "edge", w.current_index, "face_index", w.findex)
        next_eindex == deref(k2, "edge", w.current_index).val.next_index
    IN IF next_eindex = w.current_index
         THEN [kn |-> k2, walk |-> idle, done |-> TRUE, index |-> invalid,
               exit |-> "degenerate"]
       ELSE IF next_eindex = w.root_eindex
         THEN [kn |-> k2, walk |-> idle, done |-> TRUE, index |-> w.findex,
               exit |-> "closed"]
       ELSE [kn |-> k2, walk |-> [w EXCEPT !.current_index = next_eindex],
             done |-> FALSE, index |-> w.findex, exit |-> "walking"]

\* ------------------------------------------------------------------------
\* Calls on the kernel of a mesh. n is the number of calls the run may make;
\* a call starts only when no make_face is in progress and no store through
\* a null pointer has ended the run. last records the call: its operation,
\* the index it returned (emplace, make_edge_pair, connect_edges, make_face)
\* or resolved (remove), whether it reused a cell (emplace), resolved its
\* index (remove), stored through two valid pointers (make_edge_pair), passed
\* its checks (connect_edges) or closed its loop (make_face), and in val the
\* second edge (make_edge_pair), the arguments that passed the checks
\* (connect_edges) or the root and the exit taken (make_face).

\* The handles callers pass: the invalid handle, index_t(1) (generation 0)
\* and the handles of generation 1 with offsets up to MaxArgOffset.
ArgIndexes ==
  {invalid, index_t(1, 0)} \cup {index_t(o, 1) : o \in 1..MaxArgOffset}

\* The point handles callers pass to connect_edges.
PointArgs == {invalid, index_t(1, 0), index_t(1, 1)}

\* The handles of the cells an arena holds past the dummy cell, each with the
\* generation its cell has now.
held(k) ==
  {index_t(o, generation_at(collection[k], o)) :
     o \in 1..(Len(collection[k]) - 1)}

\* A call starts. The records live and stale of the Emplace and Remove runs
\* are not kept in the kernel runs.
begin_call(n) ==
  /\ walk.pc = "idle"
  /\ calls < n
  /\ calls' = calls + 1
  /\ UNCHANGED <<live, stale, builder>>

\* The kernel's storage becomes kn.
set_kernel(kn) ==
  /\ collection' = kn.collection
  /\ free_cells' = kn.free_cells

\* basic_kernel_t::insert / emplace of a default constructed record.
KernelInsert(n, k) ==
  /\ begin_call(n)
  /\ \E top \in top_choices(free_cells[k]) :
       LET r == kernel_emplace(kernel, k, element_t(default_t(k)), top) IN
       /\ set_kernel(r.kn)
       /\ last' = [op |-> "emplace", kind |-> k, index |-> r.index,
                   hit |-> free_cells[k] # EmptyBag, val |-> default_t(k)]
  /\ walk' = walk

\* basic_kernel_t::remove.
KernelRemove(n, k, index) ==
  /\ begin_call(n)
  /\ set_kernel(kernel_remove(kernel, k, index))
  /\ last' = [op |-> "remove", kind |-> k,
              index |-> IF kernel_get(k, index) # nullptr THEN index
                        ELSE invalid,
              hit |-> kernel_get(k, index) # nullptr, val |-> DefaultVal]
  /\ walk' = walk

\* kernel_t::make_edge_pair. A store through a null pointer is undefined
\* behaviour: either it ends the run where it stands, or it is dropped and
\* the call goes on with the stores through the other pointer.
MakeEdgePair(n) ==
  /\ begin_call(n)
  /\ \E top0 \in top_choices(free_cells["edge"]) :
       LET r0 == kernel_emplace(kernel, "edge", element_t(edge_t), top0) IN
       \E top1 \in top_choices(r0.kn.free_cells["edge"]) :
         LET r == make_edge_pair(kernel, top0, top1) IN
         /\ last' = [op |-> "make_edge_pair", kind |-> "edge",
                     index |-> r.index, hit |-> ~r.fault, val |-> r.other]
         /\ \/ /\ set_kernel(r.kn)
               /\ walk' = walk
            \/ /\ r.fault
               /\ set_kernel(r.inserted)
               /\ walk' = [idle EXCEPT !.pc = "fault"]

\* kernel_t::connect_edges.
ConnectEdges(n, eindex, pindex, next_eindex) ==
  /\ begin_call(n)
  /\ \E top \in top_choices(free_cells["vertex"]) :
       LET r == connect_edges(kernel, eindex, pindex, next_eindex, top) IN
       /\ set_kernel(r.kn)
       /\ last' = [op |-> "connect_edges", kind |-> "vertex",
                   index |-> r.index, hit |-> r.valid,
                   val |-> IF r.valid
                             THEN [eindex |-> eindex, pindex |-> pindex,
                                   next_eindex |-> next_eindex]
                             ELSE [eindex |-> invalid, pindex |-> invalid,
                                   next_eindex |-> invalid]]
  /\ walk' = walk

\* kernel_t::make_face from its entry to the first test of its loop.
MakeFace(n, root_eindex) ==
  /\ begin_call(n)
  /\ \E top \in top_choices(free_cells["face"]) :
       LET r == make_face_enter(kernel, root_eindex, top) IN
       /\ set_kernel(r.kn)
       /\ walk' = r.walk
       /\ last' = [op |-> "make_face", kind |-> "face", index |-> r.index,
                   hit |-> FALSE,
                   val |-> [root_eindex |-> root_eindex, exit |-> r.exit]]

\* kernel_t::make_face: one test of the loop condition and one iteration,
\* up to the return.
MakeFaceStep ==
  /\ walk.pc = "walking"
  /\ LET r == make_face_step(kernel, walk) IN
     /\ set_kernel(r.kn)
     /\ walk' = r.walk
     /\ last' = [last EXCEPT !.index = r.index, !.hit = r.exit = "closed",
                             !.val.exit = r.exit]
  /\ UNCHANGED <<live, stale, calls, builder>>

\* The kernel of one mesh under every call, with the handles of ArgIndexes.
MeshNext ==
  \/ \E k \in Kinds : KernelInsert(MaxMeshCalls, k)
  \/ \E k \in Kinds : \E index \in ArgIndexes :
       KernelRemove(MaxMeshCalls, k, index)
  \/ MakeEdgePair(MaxMeshCalls)
  \/ \E eindex, next_eindex \in ArgIndexes : \E pindex \in PointArgs :
       ConnectEdges(MaxMeshCalls, eindex, pindex, next_eindex)
  \/ \E root_eindex \in ArgIndexes : MakeFace(MaxMeshCalls, root_eindex)
  \/ MakeFaceStep

\* The edge handles the loop building calls pass: those the kernel returned
\* for the cells of offsets up to MaxLoop.
loop_edges == {h \in held("edge") : h.offset <= MaxLoop}

\* The kernel of one mesh while edge loops are built and turned into faces:
\* edge pairs and points are created, edges are connected with the handles
\* the kernel returned, and make_face is called on those handles and on
\* index_t(1).
FaceNext ==
  \/ /\ Len(collection["edge"]) < 1 + 2 * MaxPairs
     /\ MakeEdgePair(MaxFaceCalls)
  \/ /\ Len(collection["point"]) < 1 + MaxPoints
     /\ KernelInsert(MaxFaceCalls, "point")
  \/ \E eindex, next_eindex \in loop_edges : \E pindex \in held("point") :
       ConnectEdges(MaxFaceCalls, eindex, pindex, next_eindex)
  \/ \E root_eindex \in loop_edges \cup {index_t(1, 0)} :
       MakeFace(MaxFaceCalls, root_eindex)
  \/ MakeFaceStep

\* mesh_t::mesh_t() for the kernel runs: the dummy cell of each arena is the
\* default constructed record of its type.
MeshInit ==
  /\ collection = [k \in Kinds |-> <<element_t(default_t(k))>>]
  /\ free_cells = [k \in Kinds |-> EmptyBag]
  /\ last = [op |-> "init", kind |-> "point", index |-> invalid,
             hit |-> FALSE, val |-> DefaultVal]
  /\ live = [k \in Kinds |-> {}]
  /\ stale = [k \in Kinds |-> {}]
  /\ calls = 0
  /\ walk = idle
  /\ builder = no_builder

SpecMesh == MeshInit /\ [][MeshNext]_vars

SpecFace == MeshInit /\ [][FaceNext]_vars

\* ------------------------------------------------------------------------
\* Properties of the topology operations.

\* The handle of the cell at an offset of an arena of kernel state kn: the
\* offset with the generation the cell holds.
handle_of(kn, k, o) == index_t(o, generation_at(kn.collection[k], o))

\* The offsets of the live records of an arena of kn: the active cells past
\* the dummy cell.
live_offsets(kn, k) ==
  {o \in 1..(Len(kn.collection[k]) - 1) :
     kn.collection[k][o + 1].status = "active"}

\* C11: every make_edge_pair call allocates exactly two edges e0 and e1 (the
\* edge count grows by two, the two handles are of different cells), both
\* resolve, e0.adjacent is e1 and e1.adjacent is e0, and the call returns the
\* handle of e0.
C11_MakeEdgePairTwinsEdges ==
  [][last'.op = "make_edge_pair" =>
       LET eindex0 == last'.index
           eindex1 == last'.val
           e0 == get(collection'["edge"], eindex0)
           e1 == get(collection'["edge"], eindex1)
       IN /\ last'.hit
          /\ eindex0.offset # eindex1.offset
          /\ count(collection'["edge"], free_cells'["edge"])
               = size_t(kernel_count("edge") + 2)
          /\ e0 # nullptr /\ e1 # nullptr
          /\ e0.val.adjacent_index = eindex1
          /\ e1.val.adjacent_index = eindex0]_vars

\* C12: every live edge past the dummy cell has an adjacent handle that
\* resolves to a live edge whose own adjacent handle is the handle of the
\* first edge.
C12_TwinSymmetry ==
  \A o \in live_offsets(kernel, "edge") :
    LET e == collection["edge"][o + 1]
        twin == kernel_get("edge", e.val.adjacent_index)
    IN /\ truthy(e.val.adjacent_index)
       /\ twin # nullptr
       /\ twin.status = "active"
       /\ twin.val.adjacent_index = handle_of(kernel, "edge", o)

\* An argument of connect_edges or make_face that is the invalid handle or
\* does not resolve in arena k.
unusable(k, index) == index = invalid \/ kernel_get(k, index) = nullptr

\* C13: connect_edges returns the invalid vertex handle and changes nothing
\* whenever one of its three handles is the invalid handle or does not
\* resolve: for all handles callers pass, in every state, and in every call
\* made; and a call passes its checks only with three handles that are not
\* the invalid handle and resolve.
C13_ConnectEdgesRejectsWithoutMutation ==
  /\ [](\A eindex, next_eindex \in ArgIndexes : \A pindex \in PointArgs :
          (\/ unusable("edge", eindex)
           \/ unusable("point", pindex)
           \/ unusable("edge", next_eindex)) =>
            \A top \in top_choices(free_cells["vertex"]) :
              LET r == connect_edges(kernel, eindex, pindex, next_eindex, top)
              IN r.kn = kernel /\ r.index = invalid /\ ~r.valid)
  /\ [][/\ (last'.op = "connect_edges" /\ ~last'.hit) =>
             /\ collection' = collection
             /\ free_cells' = free_cells
             /\ last'.index = invalid
        /\ (last'.op = "connect_edges" /\ last'.hit) =>
             /\ ~unusable("edge", last'.val.eindex)
             /\ ~unusable("point", last'.val.pindex)
             /\ ~unusable("edge", last'.val.next_eindex)]_vars

\* C13 witness: connect_edges has just been rejected on a kernel that holds
\* an edge pair and a point cell, one of them freed, and no vertex.
C13_Witness ==
  /\ last.op = "connect_edges" /\ ~last.hit /\ last.index = invalid
  /\ Len(collection["edge"]) = 3
  /\ Len(collection["point"]) = 2
  /\ Len(collection["vertex"]) = 1
  /\ \/ freed_cells("edge") # {}
     \/ freed_cells("point") # {}

\* The cells of an arena at the offsets outside os are the same in the
\* collections c and d.
same_cells_except(c, d, os) ==
  /\ Len(d) >= Len(c)
  /\ \A o \in 0..(Len(c) - 1) : o \in os \/ d[o + 1] = c[o + 1]

\* The record r with the fields fs set to the default constructed values of
\* arena k, to compare two records on their other fields.
without(r, k, fs) ==
  [f \in DOMAIN r |-> IF f \in fs THEN default_t(k)[f] ELSE r[f]]

\* C14: when the three handles resolve, connect_edges allocates exactly one
\* vertex v with v.point = point and v.edge = out_edge, sets in_edge.next =
\* out_edge, out_edge.prev = in_edge and out_edge.vertex = v, inserts v into
\* the point's vertex set, returns v, and leaves every other field of every
\* record as it was.
C14_ConnectEdgesWires ==
  [][(last'.op = "connect_edges" /\ last'.hit) =>
       LET ein  == last'.val.eindex
           p    == last'.val.pindex
           eout == last'.val.next_eindex
           v    == last'.index
           edges  == collection["edge"]
           edges2 == collection'["edge"]
           vertex == get(collection'["vertex"], v)
       IN /\ truthy(v)
          /\ vertex # nullptr
          /\ vertex.status = "active"
          /\ vertex.val = [point_index |-> p, edge_index |-> eout]
          /\ count(collection'["vertex"], free_cells'["vertex"])
               = size_t(kernel_count("vertex") + 1)
          /\ same_cells_except(collection["vertex"], collection'["vertex"],
                               {v.offset})
          /\ get(edges2, ein).val.next_index = eout
          /\ get(edges2, eout).val.prev_index = ein
          /\ get(edges2, eout).val.vertex_index = v
          /\ get(collection'["point"], p).val.vertices
               = get(collection["point"], p).val.vertices \cup {v}
          /\ collection'["face"] = collection["face"]
          /\ free_cells'["face"] = free_cells["face"]
          /\ free_cells'["edge"] = free_cells["edge"]
          /\ free_cells'["point"] = free_cells["point"]
          /\ Len(edges2) = Len(edges)
          /\ Len(collection'["point"]) = Len(collection["point"])
          /\ same_cells_except(edges, edges2, {ein.offset, eout.offset})
          /\ same_cells_except(collection["point"], collection'["point"],
                               {p.offset})
          /\ \A o \in {ein.offset, eout.offset} :
               LET fs == (IF o = ein.offset THEN {"next_index"} ELSE {})
                         \cup (IF o = eout.offset
                                 THEN {"prev_index", "vertex_index"} ELSE {})
               IN /\ without(edges2[o + 1].val, "edge", fs)
                      = without(edges[o + 1].val, "edge", fs)
                  /\ edges2[o + 1].generation = edges[o + 1].generation
                  /\ edges2[o + 1].status = edges[o + 1].status
          /\ [collection'["point"][p.offset + 1] EXCEPT !.val.vertices = {}]
               = [collection["point"][p.offset + 1]
                    EXCEPT !.val.vertices = {}]]_vars

\* A make_face call has returned and no other call was made since.
make_face_returned == last.op = "make_face" /\ walk.pc = "idle"

\* C15: make_face(root_edge) returns the invalid face handle at once and
\* changes nothing (no face allocated, the face count as before, no edge
\* stamped) when root_edge is the invalid handle or does not resolve.
C15_MakeFaceRejectsBadRoot ==
  [][(last'.op = "make_face" /\ calls' = calls + 1
      /\ unusable("edge", last'.val.root_eindex)) =>
       /\ walk'.pc = "idle"
       /\ last'.index = invalid
       /\ collection' = collection
       /\ free_cells' = free_cells
       /\ count(collection'["face"], free_cells'["face"])
            = kernel_count("face")]_vars

\* The edge records a make_face call leaves: the offsets of the handles in
\* the edge set of the face it returned.
face_edge_offsets(findex) ==
  {h.offset : h \in kernel_get("face", findex).val.edges}

\* C17: make_face returns a valid face handle only when its walk came back
\* to the root edge: the last edge it recorded has the root as its next. A
\* chain that ends at an edge without a next, or at an edge that does not
\* resolve, yields the invalid handle.
C17_ValidFaceOnlyForClosedLoop ==
  (make_face_returned /\ truthy(last.index)) =>
    \E h \in kernel_get("face", last.index).val.edges :
      LET e == kernel_get("edge", h) IN
      /\ e # nullptr
      /\ truthy(e.val.next_index)
      /\ e.val.next_index.offset = last.val.root_eindex.offset

\* C18: every face make_face returns a valid handle for has at least three
\* distinct edges in its edge set; a self connected edge or a loop of fewer
\* than three edges yields the invalid handle.
C18_FaceHasThreeEdges ==
  (make_face_returned /\ truthy(last.index)) =>
    /\ kernel_get("face", last.index) # nullptr
    /\ Cardinality(face_edge_offsets(last.index)) >= 3

\* The edge cells met by following next_index from the edge at offset o, o
\* included, until a handle is falsy or does not resolve or n cells more were
\* followed.
RECURSIVE next_cells(_, _)
next_cells(o, n) ==
  LET nxt == collection["edge"][o + 1].val.next_index IN
  IF n = 0 \/ ~truthy(nxt) \/ kernel_get("edge", nxt) = nullptr
    THEN {o}
    ELSE {o} \cup next_cells(nxt.offset, n - 1)

\* The number of next steps after which the walk from the edge at offset o
\* is back at the edge at offset r, or 0 when it is not within n steps.
RECURSIVE steps_back(_, _, _, _)
steps_back(o, r, done, n) ==
  LET nxt == collection["edge"][o + 1].val.next_index IN
  IF n = 0 \/ ~truthy(nxt) \/ kernel_get("edge", nxt) = nullptr THEN 0
  ELSE IF nxt.offset = r THEN done + 1
  ELSE steps_back(nxt.offset, r, done + 1, n - 1)

\* The length of the closed loop the next handles form through the edge a
\* root handle resolves to, or 0 when the root does not resolve to an edge
\* past the dummy cell or its walk does not come back to it.
loop_length(root_eindex) ==
  IF ~truthy(root_eindex) \/ kernel_get("edge", root_eindex) = nullptr
    THEN 0
    ELSE steps_back(root_eindex.offset, root_eindex.offset, 0,
                    Len(collection["edge"]))

\* C16: if the walk of next from root_edge comes back to root_edge after n >=
\* 3 distinct edges, make_face allocates one face and returns its valid
\* handle, the face's root edge is root_edge, its edge set holds exactly
\* those n edges (never more, also while the call runs), and the face handle
\* of each of the n edges is the new face.
C16_ClosedLoopMakesFace ==
  LET root == last.val.root_eindex
      n == loop_length(root)
      loop == next_cells(root.offset, n - 1)
  IN (last.op = "make_face" /\ n >= 3) =>
       /\ walk.pc = "walking" =>
            /\ kernel_get("face", walk.findex) # nullptr
            /\ Cardinality(kernel_get("face", walk.findex).val.edges) <= n
       /\ walk.pc = "idle" =>
            /\ truthy(last.index)
            /\ kernel_get("face", last.index) # nullptr
            /\ kernel_get("face", last.index).status = "active"
            /\ kernel_get("face", last.index).val.root_edge_index = root
            /\ Cardinality(kernel_get("face", last.index).val.edges) = n
            /\ face_edge_offsets(last.index) = loop
            /\ \A o \in loop :
                 collection["edge"][o + 1].val.face_index = last.index

\* C19: make_face terminates on every edge graph. Its walk changes no next
\* handle, so it terminates exactly when it never tests an edge it has
\* already recorded: a walk that comes back to a recorded edge repeats the
\* same iterations forever.
C19_MakeFaceTerminates ==
  walk.pc = "walking" =>
    walk.current_index
      \notin collection["face"][walk.findex.offset + 1].val.edges

\* C20: for every live vertex whose edge handle is set and resolves to an
\* edge e, e.vertex is the handle of that vertex.
C20_VertexEdgePointsBack ==
  \A o \in live_offsets(kernel, "vertex") :
    LET v == collection["vertex"][o + 1]
        e == kernel_get("edge", v.val.edge_index)
    IN (truthy(v.val.edge_index) /\ e # nullptr) =>
         e.val.vertex_index = handle_of(kernel, "vertex", o)

\* C21: each live point's vertex set holds exactly the handles of the live
\* vertices whose point handle is that point's handle, whether the vertices
\* were made by connect_edges or inserted directly, and also after a vertex
\* is removed.
C21_PointVerticesExact ==
  \A o \in live_offsets(kernel, "point") :
    collection["point"][o + 1].val.vertices
      = {handle_of(kernel, "vertex", v) :
           v \in {w \in live_offsets(kernel, "vertex") :
                    collection["vertex"][w + 1].val.point_index
                      = handle_of(kernel, "point", o)}}

\* ------------------------------------------------------------------------
\* The traversal proxies element_fn_t, edge_fn_t, face_fn_t, vertex_fn_t and
\* point_fn_t. A proxy holds a kernel pointer, here "kernel" (the kernel of
\* the mesh) or "null", and a handle; its arena k is that of its type.

\* element_fn_t(kernel, index).
element_fn_t(k, index) == [_kernel |-> k, _index |-> index]

\* The static members edge_fn_t::invalid, face_fn_t::invalid,
\* vertex_fn_t::invalid and point_fn_t::invalid.
invalid_fn == element_fn_t("null", invalid)

\* mesh_t::edge, face, vertex and point: a proxy on the mesh's kernel.
mesh_fn(index) == element_fn_t("kernel", index)

\* element_fn_t::element on kernel state kn: nullptr without a kernel, else
\* what kernel_t::get returns.
element(kn, k, fn) ==
  IF fn._kernel # "null" THEN deref(kn, k, fn._index) ELSE nullptr

\* A pointer returned by get or element is the null pointer.
is_null(elem) == elem.status = "nullptr"

\* operator bool as it would be without the test of the handle.
fn_bool_without_index(kn, k, fn) ==
  fn._kernel # "null" /\ ~is_null(element(kn, k, fn))

\* element_fn_t::operator bool.
fn_bool(kn, k, fn) ==
  fn._kernel # "null" /\ truthy(fn._index) /\ ~is_null(element(kn, k, fn))

\* FN_GETTER: a proxy on the same kernel for the handle in a field of the
\* record the proxy resolves to, or the static invalid proxy when element()
\* is null.
FN_GETTER(kn, k, fn, field) ==
  LET elem == element(kn, k, fn) IN
  IF ~is_null(elem) THEN element_fn_t(fn._kernel, elem.val[field])
                    ELSE invalid_fn

\* The accessors of edge_fn_t.
edge_fn_vertex(kn, fn) == FN_GETTER(kn, "edge", fn, "vertex_index")
edge_fn_face(kn, fn) == FN_GETTER(kn, "edge", fn, "face_index")
edge_fn_next(kn, fn) == FN_GETTER(kn, "edge", fn, "next_index")
edge_fn_prev(kn, fn) == FN_GETTER(kn, "edge", fn, "prev_index")
edge_fn_adjacent(kn, fn) == FN_GETTER(kn, "edge", fn, "adjacent_index")

\* The accessors of vertex_fn_t.
vertex_fn_edge(kn, fn) == FN_GETTER(kn, "vertex", fn, "edge_index")
vertex_fn_point(kn, fn) == FN_GETTER(kn, "vertex", fn, "point_index")

\* face_fn_t::root_edge.
face_fn_root_edge(kn, fn) == FN_GETTER(kn, "face", fn, "root_edge_index")

\* edge_fn_t::is_boundary: the set of its outcomes. The face handle of the
\* adjacent edge is read through adjacent().element() without a test of the
\* pointer: with a null pointer the read is undefined behaviour, which
\* yields either answer or ends the run ("fault").
is_boundary(kn, fn) ==
  LET edge == element(kn, "edge", fn) IN
  IF ~is_null(edge)
    THEN IF ~truthy(edge.val.face_index) THEN {"true"}
         ELSE LET adjacent_edge == element(kn, "edge", edge_fn_adjacent(kn, fn))
              IN IF is_null(adjacent_edge) THEN {"true", "false", "fault"}
                 ELSE IF ~truthy(adjacent_edge.val.face_index) THEN {"true"}
                 ELSE {"false"}
    ELSE {"true"}

\* edge_fn_t::points: the point proxies of the edge's vertex and of its next
\* edge's vertex.
edge_fn_points(kn, fn) ==
  <<vertex_fn_point(kn, edge_fn_vertex(kn, fn)),
    vertex_fn_point(kn, edge_fn_vertex(kn, edge_fn_next(kn, fn)))>>

\* ------------------------------------------------------------------------
\* Properties of the traversal proxies.

\* The proxies callers hold for arena k: with or without a kernel, on the
\* handles callers pass and on the handles of the cells the arena holds.
Proxies(k) ==
  {element_fn_t(p, h) : p \in {"kernel", "null"},
                        h \in ArgIndexes \cup held(k)}

\* A handle resolves in arena k: its offset is below the size of the
\* collection and its generation is 0 or that of the cell.
resolves(k, h) ==
  /\ h.offset < Len(collection[k])
  /\ \/ h.generation = 0
     \/ h.generation = generation_at(collection[k], h.offset)

\* C28: a proxy is truthy exactly when its kernel pointer is not null, the
\* offset of its handle is not 0 and the handle resolves in storage; a proxy
\* built from a null kernel and a default handle is falsy for the edge,
\* vertex and face variants.
C28_ProxyTruthyExactly ==
  \A k \in Kinds :
    /\ \A fn \in Proxies(k) :
         fn_bool(kernel, k, fn)
           <=> (/\ fn._kernel # "null"
                /\ fn._index.offset # 0
                /\ resolves(k, fn._index))
    /\ ~fn_bool(kernel, k, element_fn_t("null", invalid))

\* C28 witness: an edge arena where the proxy of a live edge is truthy, the
\* proxy of a freed edge's handle is falsy, the proxy of the default handle
\* on the kernel is falsy although the handle resolves (to the dummy cell),
\* and the proxy without a kernel is falsy.
C28_Witness ==
  /\ Len(collection["edge"]) = 3
  /\ generation_at(collection["edge"], 2) = 2
  /\ fn_bool(kernel, "edge", mesh_fn(index_t(1, 1)))
  /\ ~fn_bool(kernel, "edge", mesh_fn(index_t(2, 1)))
  /\ resolves("edge", invalid) /\ ~fn_bool(kernel, "edge", mesh_fn(invalid))
  /\ ~fn_bool(kernel, "edge", element_fn_t("null", index_t(1, 1)))

\* C29: every navigation accessor (next, prev, adjacent, vertex, face,
\* root_edge, edge, point) applied to a falsy proxy returns a falsy proxy.
C29_FalsyProxyStaysFalsy ==
  /\ \A fn \in Proxies("edge") :
       ~fn_bool(kernel, "edge", fn) =>
         /\ ~fn_bool(kernel, "edge", edge_fn_next(kernel, fn))
         /\ ~fn_bool(kernel, "edge", edge_fn_prev(kernel, fn))
         /\ ~fn_bool(kernel, "edge", edge_fn_adjacent(kernel, fn))
         /\ ~fn_bool(kernel, "vertex", edge_fn_vertex(kernel, fn))
         /\ ~fn_bool(kernel, "face", edge_fn_face(kernel, fn))
  /\ \A fn \in Proxies("face") :
       ~fn_bool(kernel, "face", fn) =>
         ~fn_bool(kernel, "edge", face_fn_root_edge(kernel, fn))
  /\ \A fn \in Proxies("vertex") :
       ~fn_bool(kernel, "vertex", fn) =>
         /\ ~fn_bool(kernel, "edge", vertex_fn_edge(kernel, fn))
         /\ ~fn_bool(kernel, "point", vertex_fn_point(kernel, fn))

\* C30: for every edge proxy, is_boundary returns true exactly when the edge
\* does not resolve, or the edge has no face, or its adjacent edge has no
\* face (an adjacent handle that does not resolve has none), and false
\* otherwise; it always returns a value.
C30_IsBoundaryExactly ==
  \A fn \in Proxies("edge") :
    LET edge == element(kernel, "edge", fn)
        adjacent_edge == kernel_get("edge", edge.val.adjacent_index)
    IN is_boundary(kernel, fn)
         = {IF \/ is_null(edge)
               \/ ~truthy(edge.val.face_index)
               \/ is_null(adjacent_edge)
               \/ ~truthy(adjacent_edge.val.face_index)
              THEN "true" ELSE "false"}

\* ------------------------------------------------------------------------
\* mesh_builder_t and edge_loop_builder_t. The builders are run on meshes
\* no record was removed from: the queues of free cells are empty and every
\* emplace appends.

\* Bounds of the builder runs: up to MaxBuildCalls calls on mesh_builder_t
\* (SpecBuild) and up to MaxLoopCalls calls with an edge_loop_builder_t
\* (SpecLoop), points inserted while the mesh has fewer than MaxBuildPoints,
\* point handles of offsets up to MaxPointArg and edge handles of offsets up
\* to MaxEdgeArg, edge pairs made while the mesh has fewer than
\* MaxBuildEdges edges.
MaxBuildCalls == 2
MaxLoopCalls == 5
MaxBuildPoints == 4
MaxPointArg == 3
MaxEdgeArg == 4
MaxBuildEdges == 12

\* The entry the next emplace pops from a queue.
next_top(free) == CHOOSE top \in top_choices(free) : TRUE

\* F applied to the value of v: the value is computed once, as the result
\* of a call is when the code binds it to a local variable.
once(v, F(_)) == CHOOSE y \in {F(x) : x \in {v}} : TRUE

\* kernel_t::make_edge_pair called by a builder.
builder_edge_pair(kn) ==
  LET top0 == next_top(kn.free_cells["edge"])
      r0 == kernel_emplace(kn, "edge", element_t(edge_t), top0)
  IN make_edge_pair(kn, top0, next_top(r0.kn.free_cells["edge"]))

\* kernel_t::connect_edges called by a builder.
builder_connect(kn, eindex, pindex, next_eindex) ==
  connect_edges(kn, eindex, pindex, next_eindex,
                next_top(kn.free_cells["vertex"]))

\* edge_loop_builder_t(mesh, pindex): with a truthy point handle an edge
\* pair is made and becomes the root and last edge, the point the root and
\* last point; otherwise the members stay default constructed.
loop_from_point(kn, pindex) ==
  IF ~truthy(pindex)
    THEN [kn |-> kn, builder |-> edge_loop_builder_t]
    ELSE once(builder_edge_pair(kn), LAMBDA r :
           [kn |-> r.kn,
            builder |-> [_root_eindex |-> r.index, _last_eindex |-> r.index,
                         _root_pindex |-> pindex, _last_pindex |-> pindex]])

\* The constructor from an edge as it would be without the test of the
\* edge's face.
loop_from_edge_ignoring_face(kn, root_eindex) ==
  LET edge == mesh_fn(root_eindex)
      adjacent_edge == edge_fn_adjacent(kn, edge)
      edge_points == edge_fn_points(kn, adjacent_edge)
  IN [kn |-> kn,
      builder |->
        IF ~truthy(root_eindex) THEN edge_loop_builder_t
        ELSE IF ~fn_bool(kn, "edge", adjacent_edge)
          THEN edge_loop_builder_t
        ELSE IF \/ ~truthy(edge_points[1]._index)
                \/ ~truthy(edge_points[2]._index)
          THEN edge_loop_builder_t
        ELSE [_root_eindex |-> root_eindex, _last_eindex |-> root_eindex,
              _root_pindex |-> edge_points[1]._index,
              _last_pindex |-> edge_points[2]._index]]

\* edge_loop_builder_t(mesh, root_eindex): the edge must be truthy and have
\* no face, its adjacent edge must be truthy, and the two points of the
\* adjacent edge must be truthy; they become the root and last point and the
\* edge the root and last edge.
loop_from_edge(kn, root_eindex) ==
  LET edge == mesh_fn(root_eindex)
      adjacent_edge == edge_fn_adjacent(kn, edge)
      edge_points == edge_fn_points(kn, adjacent_edge)
  IN [kn |-> kn,
      builder |->
        IF ~truthy(root_eindex) THEN edge_loop_builder_t
        ELSE IF fn_bool(kn, "face", edge_fn_face(kn, edge))
          THEN edge_loop_builder_t
        ELSE IF ~fn_bool(kn, "edge", adjacent_edge)
          THEN edge_loop_builder_t
        ELSE IF \/ ~truthy(edge_points[1]._index)
                \/ ~truthy(edge_points[2]._index)
          THEN edge_loop_builder_t
        ELSE [_root_eindex |-> root_eindex, _last_eindex |-> root_eindex,
              _root_pindex |-> edge_points[1]._index,
              _last_pindex |-> edge_points[2]._index]]

\* add_point as it would be if the new edge did not become the last edge.
add_point_keeps_last_edge(kn, b, next_pindex) ==
  IF ~truthy(b._last_pindex)
    THEN [kn |-> kn, builder |-> b, index |-> invalid]
    ELSE once(builder_edge_pair(kn), LAMBDA r :
         once(builder_connect(r.kn, b._last_eindex, b._last_pindex, r.index),
              LAMBDA c :
           [kn |-> c.kn,
            builder |-> [b EXCEPT !._last_pindex = next_pindex],
            index |-> c.index]))

\* add_point as it would be without the test of the last point.
add_point_unguarded(kn, b, next_pindex) ==
  once(builder_edge_pair(kn), LAMBDA r :
  once(builder_connect(r.kn, b._last_eindex, b._last_pindex, r.index),
       LAMBDA c :
    [kn |-> c.kn,
     builder |-> [b EXCEPT !._last_pindex = next_pindex,
                           !._last_eindex = r.index],
     index |-> c.index]))

\* edge_loop_builder_t::add_point: nothing without a last point; otherwise
\* an edge pair is made (r), the last edge is connected to it at the last
\* point (c; index is the vertex connect_edges returned) and the new edge
\* and next_pindex become the last edge and point.
add_point(kn, b, next_pindex) ==
  IF ~truthy(b._last_pindex)
    THEN [kn |-> kn, builder |-> b, index |-> invalid]
    ELSE once(builder_edge_pair(kn), LAMBDA r :
         once(builder_connect(r.kn, b._last_eindex, b._last_pindex, r.index),
              LAMBDA c :
           [kn |-> c.kn,
            builder |-> [b EXCEPT !._last_pindex = next_pindex,
                                  !._last_eindex = r.index],
            index |-> c.index]))

\* close as it would be without the comparison of the last point with the
\* root point.
close_without_comparison(kn, b) ==
  IF ~truthy(b._last_pindex)
    THEN [kn |-> kn, builder |-> b, index |-> b._root_eindex,
          vindex |-> invalid]
  ELSE once(builder_connect(kn, b._last_eindex, b._last_pindex,
                            b._root_eindex), LAMBDA c :
         [kn |-> c.kn, builder |-> [b EXCEPT !._last_pindex = invalid],
          index |-> b._root_eindex, vindex |-> c.index])

\* close as it would be if it gave up the pending point without connecting
\* the last edge to the root edge.
close_without_connect(kn, b) ==
  [kn |-> kn, builder |-> [b EXCEPT !._last_pindex = invalid],
   index |-> b._root_eindex, vindex |-> invalid]

\* edge_loop_builder_t::close: without a last point, or with the last point
\* equal to the root point, nothing; otherwise the last edge is connected to
\* the root edge at the last point (c; vindex is the vertex connect_edges
\* returned) and the last point is reset. Returns the root edge.
close(kn, b) ==
  IF ~truthy(b._last_pindex)
    THEN [kn |-> kn, builder |-> b, index |-> b._root_eindex,
          vindex |-> invalid]
  ELSE IF b._last_pindex = b._root_pindex
    THEN [kn |-> kn, builder |-> b, index |-> b._root_eindex,
          vindex |-> invalid]
  ELSE once(builder_connect(kn, b._last_eindex, b._last_pindex,
                            b._root_eindex), LAMBDA c :
         [kn |-> c.kn, builder |-> [b EXCEPT !._last_pindex = invalid],
          index |-> b._root_eindex, vindex |-> c.index])

\* The chain add_point(p1).add_point(p2).close() on the builder of a loop
\* step s: ok tells that the three connect_edges calls were made and
\* returned a vertex.
loop_chain(s, p1, p2) ==
  once(add_point(s.kn, s.builder, p1), LAMBDA a1 :
  once(add_point(a1.kn, a1.builder, p2), LAMBDA a2 :
  once(close(a2.kn, a2.builder), LAMBDA c :
    [kn |-> c.kn, index |-> c.index,
     ok |-> truthy(a1.index) /\ truthy(a2.index) /\ truthy(c.vindex)])))

\* mesh_builder_t::add_triangle(pindex0, pindex1, pindex2) up to its call of
\* make_face: index is the root edge close returned.
add_triangle_pindex(kn, pindex0, pindex1, pindex2) ==
  once(loop_from_point(kn, pindex0), LAMBDA s :
    loop_chain(s, pindex1, pindex2))

\* add_triangle(eindex, pindex) as it would be if the loop started from
\* eindex itself instead of its adjacent edge.
add_triangle_on_edge(kn, eindex, pindex) ==
  once(loop_from_edge(kn, eindex), LAMBDA s :
    loop_chain(s,
      vertex_fn_point(kn, edge_fn_vertex(kn, mesh_fn(eindex)))._index,
      pindex))

\* mesh_builder_t::add_triangle(eindex, pindex) past its test of eindex and
\* up to its call of make_face: the loop starts from the adjacent edge of
\* eindex and goes through the point of the vertex of eindex and pindex.
add_triangle_eindex(kn, eindex, pindex) ==
  LET adjacent_index == edge_fn_adjacent(kn, mesh_fn(eindex))._index IN
  once(loop_from_edge(kn, adjacent_index), LAMBDA s :
    loop_chain(s,
      vertex_fn_point(kn, edge_fn_vertex(kn, mesh_fn(eindex)))._index,
      pindex))

\* ------------------------------------------------------------------------
\* Calls on the builders of a mesh. last records the call: its operation,
\* the handle it returned (the root edge for start_edge_loop and close, the
\* vertex of its connect_edges for add_point, the face for add_triangle) and
\* whether the builder is usable (start_edge_loop, add_point) or the closing
\* connect_edges returned a vertex (close). For add_triangle val holds the
\* overload called (form), its handles (eindex, points), the root edge close
\* returned, whether the three connect_edges calls returned a vertex (ok),
\* the kernel's storage before the call (before) and the exit make_face
\* took.

\* The point handles callers pass to the builders.
BuildPoints == {invalid} \cup {index_t(o, 1) : o \in 1..MaxPointArg}

\* The edge handles callers pass to the builders.
BuildEdges ==
  {invalid, index_t(1, 0)} \cup {index_t(o, 1) : o \in 1..MaxEdgeArg}

\* A builder call starts.
begin_build(n) ==
  /\ walk.pc = "idle"
  /\ calls < n
  /\ calls' = calls + 1
  /\ UNCHANGED <<live, stale>>

\* The mesh has room for the edge pairs of one more call.
room_for_edges == mesh_count("edge") < MaxBuildEdges

\* mesh_builder_t::start_edge_loop(pindex).
StartEdgeLoopPoint(n, pindex) ==
  /\ begin_build(n)
  /\ room_for_edges
  /\ \E r \in {loop_from_point(kernel, pindex)} :
     /\ set_kernel(r.kn)
     /\ builder' = [loop |-> r.builder, from |-> "point", points |-> 0,
                    before |-> kernel, given |-> <<>>, closes |-> 0,
                    failed |-> r.builder = edge_loop_builder_t,
                    closed |-> FALSE]
     /\ last' = [op |-> "start_edge_loop", kind |-> "point",
                 index |-> r.builder._root_eindex,
                 hit |-> truthy(r.builder._last_pindex), val |-> pindex]
  /\ walk' = walk

\* mesh_builder_t::start_edge_loop(eindex0).
StartEdgeLoopEdge(n, eindex0) ==
  /\ begin_build(n)
  /\ \E r \in {loop_from_edge(kernel, eindex0)} :
     /\ set_kernel(r.kn)
     /\ builder' = [loop |-> r.builder, from |-> "edge", points |-> 0,
                    before |-> kernel, given |-> <<>>, closes |-> 0,
                    failed |-> r.builder = edge_loop_builder_t,
                    closed |-> FALSE]
     /\ last' = [op |-> "start_edge_loop", kind |-> "edge",
                 index |-> r.builder._root_eindex,
                 hit |-> truthy(r.builder._last_pindex), val |-> eindex0]
  /\ walk' = walk

\* edge_loop_builder_t::add_point on the builder the caller holds.
AddPoint(n, next_pindex) ==
  /\ begin_build(n)
  /\ room_for_edges
  /\ builder.from # "none"
  /\ \E r \in {add_point(kernel, builder.loop, next_pindex)} :
     /\ set_kernel(r.kn)
     /\ builder' = [builder EXCEPT !.loop = r.builder,
                                   !.points = builder.points + 1,
                                   !.given = Append(builder.given,
                                                    next_pindex)]
     /\ last' = [op |-> "add_point", kind |-> "point", index |-> r.index,
                 hit |-> truthy(builder.loop._last_pindex),
                 val |-> next_pindex]
  /\ walk' = walk

\* edge_loop_builder_t::close on the builder the caller holds.
Close(n) ==
  /\ begin_build(n)
  /\ builder.from # "none"
  /\ \E r \in {close(kernel, builder.loop)} :
     /\ set_kernel(r.kn)
     /\ builder' = [builder EXCEPT !.loop = r.builder,
                                   !.closes = builder.closes + 1,
                                   !.closed = builder.closed
                                                \/ truthy(r.vindex)]
     /\ last' = [op |-> "close", kind |-> "edge", index |-> r.index,
                 hit |-> truthy(r.vindex), val |-> DefaultVal]
  /\ walk' = walk

\* The end of the add_triangle overloads: return kernel->make_face(root) on
\* the storage the loop chain c left, from the entry of make_face to the
\* first test of its loop.
add_triangle_make_face(c, form, eindex, points) ==
  \E r \in {make_face_enter(c.kn, c.index,
                             next_top(c.kn.free_cells["face"]))} :
     /\ set_kernel(r.kn)
     /\ walk' = r.walk
     /\ last' = [op |-> "add_triangle", kind |-> "face", index |-> r.index,
                 hit |-> FALSE,
                 val |-> [form |-> form, eindex |-> eindex,
                          points |-> points, root_eindex |-> c.index,
                          ok |-> c.ok, before |-> kernel, exit |-> r.exit]]

\* The return of face_index_t::invalid for a falsy eindex.
add_triangle_invalid_edge(form, eindex, points) ==
  /\ UNCHANGED <<collection, free_cells, walk>>
  /\ last' = [op |-> "add_triangle", kind |-> "face", index |-> invalid,
              hit |-> FALSE,
              val |-> [form |-> form, eindex |-> eindex, points |-> points,
                       root_eindex |-> invalid, ok |-> FALSE,
                       before |-> kernel, exit |-> "invalid_edge"]]

\* kernel->emplace(std::move(p0)) of the add_triangle overloads.
emplace_point(kn) ==
  kernel_emplace(kn, "point", element_t(point_t(0)),
                 next_top(kn.free_cells["point"]))

\* The three emplaces of add_triangle(p0, p1, p2).
emplace_points(kn) ==
  once(emplace_point(kn), LAMBDA r0 :
  once(emplace_point(r0.kn), LAMBDA r1 :
  once(emplace_point(r1.kn), LAMBDA r2 :
    [kn |-> r2.kn, points |-> <<r0.index, r1.index, r2.index>>])))

\* mesh_builder_t::add_triangle(point_t p0, point_t p1, point_t p2).
AddTrianglePoints(n) ==
  /\ begin_build(n)
  /\ room_for_edges
  /\ UNCHANGED builder
  /\ \E e \in {emplace_points(kernel)} :
     \E c \in {add_triangle_pindex(e.kn, e.points[1], e.points[2],
                                   e.points[3])} :
       add_triangle_make_face(c, "points", invalid, e.points)

\* mesh_builder_t::add_triangle(pindex0, pindex1, pindex2).
AddTrianglePindex(n, pindex0, pindex1, pindex2) ==
  /\ begin_build(n)
  /\ room_for_edges
  /\ UNCHANGED builder
  /\ \E c \in {add_triangle_pindex(kernel, pindex0, pindex1, pindex2)} :
       add_triangle_make_face(c, "pindex", invalid,
                              <<pindex0, pindex1, pindex2>>)

\* mesh_builder_t::add_triangle(eindex, point_t p0).
AddTriangleEdgePoint(n, eindex) ==
  /\ begin_build(n)
  /\ room_for_edges
  /\ UNCHANGED builder
  /\ IF ~truthy(eindex)
       THEN add_triangle_invalid_edge("edge_point", eindex, <<>>)
       ELSE \E r \in {emplace_point(kernel)} :
            \E c \in {add_triangle_eindex(r.kn, eindex, r.index)} :
              add_triangle_make_face(c, "edge_point", eindex, <<r.index>>)

\* mesh_builder_t::add_triangle(eindex, pindex).
AddTriangleEdgePindex(n, eindex, pindex) ==
  /\ begin_build(n)
  /\ room_for_edges
  /\ UNCHANGED builder
  /\ IF ~truthy(eindex)
       THEN add_triangle_invalid_edge("edge_pindex", eindex, <<pindex>>)
       ELSE \E c \in {add_triangle_eindex(kernel, eindex, pindex)} :
              add_triangle_make_face(c, "edge_pindex", eindex, <<pindex>>)

\* A point is inserted in the mesh the builders work on.
InsertPoint(n) ==
  /\ mesh_count("point") < MaxBuildPoints
  /\ KernelInsert(n, "point")

\* One mesh under mesh_builder_t: points are inserted and triangles are
\* added with the four overloads of add_triangle.
BuildNext ==
  \/ InsertPoint(MaxBuildCalls)
  \/ AddTrianglePoints(MaxBuildCalls)
  \/ \E pindex0, pindex1, pindex2 \in BuildPoints :
       AddTrianglePindex(MaxBuildCalls, pindex0, pindex1, pindex2)
  \/ \E eindex \in BuildEdges : AddTriangleEdgePoint(MaxBuildCalls, eindex)
  \/ \E eindex \in BuildEdges : \E pindex \in BuildPoints :
       AddTriangleEdgePindex(MaxBuildCalls, eindex, pindex)
  \/ MakeFaceStep

\* One mesh under one edge_loop_builder_t: points are inserted, a triangle
\* is added from three new points, and edge loops are started from a point
\* or an edge, extended and closed.
LoopNext ==
  \/ InsertPoint(MaxLoopCalls)
  \/ AddTrianglePoints(MaxLoopCalls)
  \/ \E pindex \in BuildPoints : StartEdgeLoopPoint(MaxLoopCalls, pindex)
  \/ \E eindex \in BuildEdges : StartEdgeLoopEdge(MaxLoopCalls, eindex)
  \/ \E pindex \in BuildPoints : AddPoint(MaxLoopCalls, pindex)
  \/ Close(MaxLoopCalls)
  \/ MakeFaceStep

SpecBuild == MeshInit /\ [][BuildNext]_vars

SpecLoop == MeshInit /\ [][LoopNext]_vars

\* ------------------------------------------------------------------------
\* Properties of the builders.

\* mesh_t::point_count / vertex_count / edge_count / face_count on kernel
\* state kn.
mesh_count_in(kn, k) ==
  size_t(count(kn.collection[k], kn.free_cells[k]) - 1)

\* An add_triangle call has returned and no other call was made since.
add_triangle_returned == last.op = "add_triangle" /\ walk.pc = "idle"

\* A mesh without edges, vertices and faces.
no_topology(kn) ==
  /\ mesh_count_in(kn, "edge") = 0
  /\ mesh_count_in(kn, "vertex") = 0
  /\ mesh_count_in(kn, "face") = 0

\* The outcomes of is_boundary on the edges of the edge set of the face a
\* handle resolves to.
face_edges_boundary(kn, findex) ==
  UNION {is_boundary(kn, mesh_fn(h)) :
           h \in deref(kn, "face", findex).val.edges}

\* C22 as stated: one triangle built from three new points on an empty mesh
\* yields edge_count = 3, vertex_count = 3, point_count = 3 and face_count =
\* 1, and every edge of the face is a boundary edge.
C22_TriangleHasThreeEdges ==
  (/\ add_triangle_returned
   /\ last.val.form = "points"
   /\ no_topology(last.val.before)
   /\ mesh_count_in(last.val.before, "point") = 0) =>
    /\ mesh_count("edge") = 3
    /\ mesh_count("vertex") = 3
    /\ mesh_count("point") = 3
    /\ mesh_count("face") = 1
    /\ truthy(last.index)
    /\ face_edges_boundary(kernel, last.index) = {"true"}

\* C22 amended: one triangle built from three new points on an empty mesh
\* yields edge_count = 6 (three edge pairs), vertex_count = 3, point_count =
\* 3 and face_count = 1, and every edge of the face is a boundary edge.
C22_TriangleCounts ==
  (/\ add_triangle_returned
   /\ last.val.form = "points"
   /\ no_topology(last.val.before)
   /\ mesh_count_in(last.val.before, "point") = 0) =>
    /\ mesh_count("edge") = 6
    /\ mesh_count("vertex") = 3
    /\ mesh_count("point") = 3
    /\ mesh_count("face") = 1
    /\ truthy(last.index)
    /\ Cardinality(kernel_get("face", last.index).val.edges) = 3
    /\ face_edges_boundary(kernel, last.index) = {"true"}

\* C22 witness: add_triangle(p0, p1, p2) has returned a face on a mesh that
\* was empty and now holds the three points.
C22_Witness ==
  /\ add_triangle_returned
  /\ last.val.form = "points"
  /\ no_topology(last.val.before)
  /\ mesh_count_in(last.val.before, "point") = 0
  /\ mesh_count("point") = 3
  /\ truthy(last.index)

\* The handles of an add_triangle call are usable: they are pairwise
\* different, truthy and resolve to points of kernel state kn.
usable_points(kn, points) ==
  /\ \A i, j \in DOMAIN points : i # j => points[i] # points[j]
  /\ \A i \in DOMAIN points :
       truthy(points[i]) /\ ~is_null(deref(kn, "point", points[i]))

\* Face findex of kernel state kn is a triangle on the edges of offsets 1,
\* 3 and 5: its root edge is edge 1, next leads from 1 to 3 to 5 to 1, and
\* the three edges have findex as their face.
triangle_on_first_edges(kn, findex) ==
  LET root == face_fn_root_edge(kn, mesh_fn(findex))
      second == edge_fn_next(kn, root)
      third == edge_fn_next(kn, second)
  IN /\ fn_bool(kn, "face", mesh_fn(findex))
     /\ fn_bool(kn, "edge", root) /\ root._index.offset = 1
     /\ fn_bool(kn, "edge", second) /\ second._index.offset = 3
     /\ fn_bool(kn, "edge", third) /\ third._index.offset = 5
     /\ edge_fn_next(kn, third)._index.offset = 1
     /\ \A fn \in {root, second, third} :
          edge_fn_face(kn, fn)._index = findex

\* C23: add_triangle(p0, p1, p2) on a mesh without edges, vertices and
\* faces allocates three edge pairs (edge_count 6), 3 vertices and 1 face;
\* the face loop is made of the first edge of each pair in creation order
\* (offsets 1 -> 3 -> 5 -> 1, the prev of the root being offset 5), and the
\* three loop edges are boundary edges.
C23_FirstTriangleLoop ==
  (/\ add_triangle_returned
   /\ last.val.form \in {"points", "pindex"}
   /\ no_topology(last.val.before)
   /\ last.val.form = "pindex" =>
        usable_points(last.val.before, last.val.points)) =>
    LET root == face_fn_root_edge(kernel, mesh_fn(last.index)) IN
    /\ mesh_count("edge") = 6
    /\ mesh_count("vertex") = 3
    /\ mesh_count("face") = 1
    /\ truthy(last.index)
    /\ triangle_on_first_edges(kernel, last.index)
    /\ edge_fn_prev(kernel, root)._index.offset = 5
    /\ is_boundary(kernel, root) = {"true"}
    /\ is_boundary(kernel, edge_fn_next(kernel, root)) = {"true"}
    /\ is_boundary(kernel, edge_fn_prev(kernel, root)) = {"true"}

\* C23 witness: add_triangle has returned on a mesh that had no edges, and
\* the next of the next of the root edge of its face is the edge of offset
\* 5.
C23_Witness ==
  /\ add_triangle_returned
  /\ last.val.form \in {"points", "pindex"}
  /\ no_topology(last.val.before)
  /\ last.val.form = "pindex" =>
       usable_points(last.val.before, last.val.points)
  /\ edge_fn_next(kernel,
       edge_fn_next(kernel,
         face_fn_root_edge(kernel, mesh_fn(last.index))))._index.offset = 5

\* The mesh kn holds one triangle, that of a first add_triangle call: 6
\* edges, 3 vertices and 1 face on the edges 1, 3 and 5.
first_triangle(kn) ==
  /\ mesh_count_in(kn, "edge") = 6
  /\ mesh_count_in(kn, "vertex") = 3
  /\ mesh_count_in(kn, "face") = 1
  /\ triangle_on_first_edges(kn, index_t(1, 1))

\* The third point of an add_triangle(e, p) call is a new point (the
\* point_t overload) or the handle of a point of the mesh that is not a
\* point of edge e.
third_point(kn, form, eindex, points) ==
  \/ form = "edge_point"
  \/ /\ form = "edge_pindex"
     /\ usable_points(kn, points)
     /\ \A fn \in {edge_fn_points(kn, mesh_fn(eindex))[i] : i \in 1..2} :
          fn._index # points[1]

\* C24: after a first triangle, add_triangle(e, p) on the triangle's second
\* edge e (offset 3) adds 4 edges, 3 vertices and 1 face (edge_count 10,
\* vertex_count 6, face_count 2); the root edge of the new face is the
\* adjacent edge of e (offset 4) and is not a boundary edge, its next
\* (offset 7) and its prev (offset 9) are boundary edges.
C24_SecondTriangleOnEdge ==
  (/\ add_triangle_returned
   /\ first_triangle(last.val.before)
   /\ last.val.eindex = index_t(3, 1)
   /\ third_point(last.val.before, last.val.form, last.val.eindex,
                  last.val.points)) =>
    LET root == face_fn_root_edge(kernel, mesh_fn(last.index)) IN
    /\ mesh_count("edge") = 10
    /\ mesh_count("vertex") = 6
    /\ mesh_count("face") = 2
    /\ truthy(last.index)
    /\ last.index # index_t(1, 1)
    /\ root._index.offset = 4
    /\ root._index
         = edge_fn_adjacent(kernel, mesh_fn(last.val.eindex))._index
    /\ is_boundary(kernel, root) = {"false"}
    /\ edge_fn_next(kernel, root)._index.offset = 7
    /\ is_boundary(kernel, edge_fn_next(kernel, root)) = {"true"}
    /\ edge_fn_prev(kernel, root)._index.offset = 9
    /\ is_boundary(kernel, edge_fn_prev(kernel, root)) = {"true"}

\* C24 witness: add_triangle(e, pindex) has returned for the second edge of
\* a first triangle and the handle of a point that is not a point of e.
C24_Witness ==
  /\ add_triangle_returned
  /\ first_triangle(last.val.before)
  /\ last.val.eindex = index_t(3, 1)
  /\ last.val.form = "edge_pindex"
  /\ third_point(last.val.before, last.val.form, last.val.eindex,
                 last.val.points)
  /\ mesh_count("face") = 2

\* C25: close() on an edge loop builder before any add_point call changes
\* nothing in the mesh (the counts and every record keep their values) and
\* returns the root handle, for a builder started from a point and for a
\* builder started from an edge alike.
C25_CloseBeforeAddPoint ==
  [][(last'.op = "close" /\ builder.points = 0) =>
       /\ collection' = collection
       /\ free_cells' = free_cells
       /\ last'.index = builder.loop._root_eindex]_vars

\* The root point handle a builder was constructed from is bad: the builder
\* holds no root point (the handle was falsy) or its root point does not
\* resolve to a point of the mesh it was constructed on.
bad_root_point(b) ==
  /\ b.from = "point"
  /\ \/ ~truthy(b.loop._root_pindex)
     \/ is_null(deref(b.before, "point", b.loop._root_pindex))

\* C26: an edge loop builder given a root point handle that is invalid or
\* does not resolve to a point never modifies the mesh: its construction,
\* every add_point call and close() leave the point, vertex, edge and face
\* counts as they were, and close() returns a falsy handle.
C26_BadRootPointNeverModifies ==
  [][(/\ last'.op \in {"start_edge_loop", "add_point", "close"}
      /\ bad_root_point(builder')) =>
       /\ \A k \in Kinds :
            count(collection'[k], free_cells'[k]) = kernel_count(k)
       /\ last'.op = "close" => ~truthy(last'.index)]_vars

\* C27: every add_triangle call whose edge loop could not be built and
\* closed (an invalid or unresolvable point or edge handle, an unusable
\* loop builder, or a close() that failed, so that one of the three
\* connect_edges calls was not made or returned no vertex) returns the
\* invalid face handle.
C27_FailedLoopReturnsInvalidFace ==
  (add_triangle_returned /\ ~last.val.ok) => last.index = invalid

\* The point handle of the vertex of the edge a handle resolves to, or the
\* invalid handle when the edge or its vertex does not resolve.
origin_point(eindex) ==
  LET e == kernel_get("edge", eindex)
      v == IF is_null(e) THEN nullptr
           ELSE kernel_get("vertex", e.val.vertex_index)
  IN IF is_null(e) \/ ~truthy(e.val.vertex_index) \/ is_null(v)
       THEN invalid ELSE v.val.point_index

\* An edge handle no loop can be started from: it is falsy or does not
\* resolve, or its edge belongs to a face, or its edge has no resolvable
\* adjacent edge, or the adjacent edge and the next edge of the adjacent
\* edge do not both have a vertex with a valid point.
no_loop_from(eindex) ==
  LET e == kernel_get("edge", eindex)
      t == kernel_get("edge", e.val.adjacent_index)
  IN \/ ~truthy(eindex) \/ is_null(e)
     \/ /\ truthy(e.val.face_index)
        /\ ~is_null(kernel_get("face", e.val.face_index))
     \/ ~truthy(e.val.adjacent_index) \/ is_null(t)
     \/ ~truthy(origin_point(e.val.adjacent_index))
     \/ ~truthy(t.val.next_index)
     \/ ~truthy(origin_point(t.val.next_index))

\* C31: constructing an edge loop builder from an edge allocates nothing
\* (the storage stays as it was), and when the edge belongs to a face, or
\* has no resolvable adjacent edge, or the adjacent edge has no two valid
\* end points, the builder is left unusable: its root edge, last edge, root
\* point and pending point are the invalid handle.
C31_LoopFromEdgeAllocatesNothing ==
  [][(last'.op = "start_edge_loop" /\ last'.kind = "edge") =>
       /\ collection' = collection
       /\ free_cells' = free_cells
       /\ no_loop_from(last'.val) =>
            /\ builder'.loop = edge_loop_builder_t
            /\ ~last'.hit
            /\ last'.index = invalid]_vars

\* C31 witness: a builder was constructed from an edge that belongs to a
\* face and holds no handle.
C31_Witness ==
  /\ last.op = "start_edge_loop" /\ last.kind = "edge"
  /\ truthy(last.val)
  /\ ~is_null(kernel_get("edge", last.val))
  /\ truthy(kernel_get("edge", last.val).val.face_index)
  /\ builder.from = "edge"
  /\ builder.loop = edge_loop_builder_t

\* The handle the i-th next step from an edge handle leads to (the handle
\* itself for i = 0), or the invalid handle when a step does not resolve.
RECURSIVE nth_next(_, _)
nth_next(eindex, i) ==
  IF ~truthy(eindex) \/ is_null(kernel_get("edge", eindex)) THEN invalid
  ELSE IF i = 0 THEN eindex
  ELSE nth_next(kernel_get("edge", eindex).val.next_index, i - 1)

\* The builder the caller holds was started from a point that resolved, was
\* given k >= 2 points that resolved, the last of them not the root point,
\* and its first close() call has just returned; no face was made since it
\* was constructed.
closed_point_loop ==
  /\ last.op = "close"
  /\ builder.from = "point" /\ builder.closes = 1
  /\ Len(builder.given) >= 2
  /\ truthy(builder.loop._root_pindex)
  /\ ~is_null(deref(builder.before, "point", builder.loop._root_pindex))
  /\ \A i \in DOMAIN builder.given :
       /\ truthy(builder.given[i])
       /\ ~is_null(deref(builder.before, "point", builder.given[i]))
  /\ builder.given[Len(builder.given)] # builder.loop._root_pindex
  /\ mesh_count("face") = mesh_count_in(builder.before, "face")

\* C32: a builder started from a resolvable point and given k >= 2
\* resolvable points, the last one not the root point, closes a loop of
\* exactly k + 1 edges: next leads from the returned root through k + 1
\* distinct edges back to the root, prev is the inverse of next along the
\* loop, and k + 1 vertices were created, one per loop edge, bound to the
\* points in the order given.
C32_PointLoopCloses ==
  closed_point_loop =>
    LET k == Len(builder.given)
        edge_at(i) == nth_next(last.index, i)
        bound(i) == IF i = 0 THEN builder.given[k]
                    ELSE IF i = 1 THEN builder.loop._root_pindex
                    ELSE builder.given[i - 1]
    IN /\ truthy(last.index)
       /\ \A i \in 0..k : truthy(edge_at(i))
       /\ \A i, j \in 0..k : i # j => edge_at(i).offset # edge_at(j).offset
       /\ edge_at(k + 1) = last.index
       /\ loop_length(last.index) = k + 1
       /\ \A i \in 0..k :
            kernel_get("edge", edge_at(i + 1)).val.prev_index = edge_at(i)
       /\ mesh_count("vertex")
            = mesh_count_in(builder.before, "vertex") + k + 1
       /\ \A i \in 0..k :
            LET vindex == kernel_get("edge", edge_at(i)).val.vertex_index
                v == kernel_get("vertex", vindex)
            IN /\ truthy(vindex) /\ ~is_null(v)
               /\ v.val.edge_index = edge_at(i)
               /\ v.val.point_index = bound(i)
       /\ \A i, j \in 0..k : i # j =>
            kernel_get("edge", edge_at(i)).val.vertex_index
              # kernel_get("edge", edge_at(j)).val.vertex_index

\* C32 witness: a builder started from a point was given two points and
\* closed a loop of three edges.
C32_Witness ==
  /\ closed_point_loop
  /\ Len(builder.given) = 2
  /\ last.hit
  /\ loop_length(last.index) = 3

\* C33: once the builder the caller holds is unusable (its constructor
\* failed, or a close() call on it has connected the loop), every add_point
\* and close() call on it leaves the storage of the mesh and the members of
\* the builder as they were; and every close() call returns the root edge
\* handle of the builder, which no add_point or close() call changes.
C33_UnusableBuilderStaysInert ==
  [][/\ last'.op \in {"add_point", "close"} =>
          builder'.loop._root_eindex = builder.loop._root_eindex
     /\ last'.op = "close" => last'.index = builder.loop._root_eindex
     /\ (last'.op \in {"add_point", "close"}
           /\ (builder.failed \/ builder.closed)) =>
          /\ collection' = collection
          /\ free_cells' = free_cells
          /\ builder'.loop = builder.loop]_vars

\* C33 witness: add_point was called on a builder after its close() call
\* connected a loop.
C33_Witness ==
  /\ last.op = "add_point"
  /\ builder.closed
  /\ truthy(last.val)
  /\ truthy(builder.loop._root_eindex)

\* C34: swap(a, b) with both handles resolving leaves neither handle
\* resolving: afterwards get(a) and get(b) return absent, whatever the
\* generations of the two cells were.
C34_SwapInvalidatesHandles ==
  [][(last'.op = "swap" /\ last'.hit) =>
       /\ get(collection'[last'.kind], last'.index) = nullptr
       /\ get(collection'[last'.kind], last'.val) = nullptr]_vars

\* ------------------------------------------------------------------------
\* make_face on loops that lost an edge

\* Number of calls in a run that removes edges of a loop.
MaxOrphanCalls == 5

\* The kernel of one mesh while edge loops are built, edges of them are
\* removed again and make_face is called on what is left.
OrphanNext ==
  \/ /\ Len(collection["edge"]) < 1 + 2 * MaxPairs
     /\ MakeEdgePair(MaxOrphanCalls)
  \/ /\ Len(collection["point"]) < 1 + MaxPoints
     /\ KernelInsert(MaxOrphanCalls, "point")
  \/ \E eindex, next_eindex \in loop_edges : \E pindex \in held("point") :
       ConnectEdges(MaxOrphanCalls, eindex, pindex, next_eindex)
  \/ \E eindex \in loop_edges : KernelRemove(MaxOrphanCalls, "edge", eindex)
  \/ \E root_eindex \in loop_edges : MakeFace(MaxOrphanCalls, root_eindex)
  \/ MakeFaceStep

SpecOrphan == MeshInit /\ [][OrphanNext]_vars

\* The state a step leads to, as a kernel state.
kernel_after == [collection |-> collection', free_cells |-> free_cells']

\* C35: a make_face call that ends at its degenerate or disconnected exit
\* returns the invalid face handle and leaves its work in place: the face
\* it allocated at entry (face_count went up by one there and does not
\* change while the call runs) is still an active cell, and every edge the
\* walk visited, the root edge among them, has that face as its face handle.
C35_FailedMakeFaceLeavesFace ==
  [][/\ (walk.pc = "idle" /\ walk'.pc = "walking") =>
          mesh_count_in(kernel_after, "face")
            = size_t(mesh_count("face") + 1)
     /\ walk.pc = "walking" =>
          mesh_count_in(kernel_after, "face") = mesh_count("face")
     /\ (walk.pc = "walking" /\ walk'.pc = "idle"
           /\ last'.val.exit \in {"degenerate", "disconnected"}) =>
          LET face == deref(kernel_after, "face", walk.findex) IN
          /\ last'.index = invalid
          /\ ~is_null(face) /\ face.status = "active"
          /\ walk.findex \notin DOMAIN free_cells'["face"]
          /\ walk.root_eindex \in face.val.edges
          /\ \A eindex \in face.val.edges :
               /\ ~is_null(deref(kernel_after, "edge", eindex))
               /\ deref(kernel_after, "edge", eindex).val.face_index
                    = walk.findex]_vars

\* C35 witness: make_face has returned at its disconnected exit and the
\* root edge it was given has a face handle that resolves.
C35_Witness ==
  /\ last.op = "make_face" /\ walk.pc = "idle"
  /\ last.val.exit = "disconnected"
  /\ truthy(kernel_get("edge", last.val.root_eindex).val.face_index)
  /\ ~is_null(kernel_get("face", kernel_get("edge", last.val.root_eindex)
                                   .val.face_index))

\* The pending point of the builder the caller holds is a valid handle and
\* equals its root point.
pending_is_root ==
  /\ truthy(builder.loop._last_pindex)
  /\ builder.loop._last_pindex = builder.loop._root_pindex

\* C36: close() on a builder whose pending point equals its root point
\* leaves the storage of the mesh as it was and returns the root edge
\* handle, and the builder stays usable: its members are unchanged, its
\* pending point is still valid, and an add_point call made next makes an
\* edge pair.
C36_CloseAtRootPointDoesNothing ==
  [][/\ (last'.op = "close" /\ pending_is_root) =>
          /\ collection' = collection
          /\ free_cells' = free_cells
          /\ last'.index = builder.loop._root_eindex
          /\ ~last'.hit
          /\ builder'.loop = builder.loop
          /\ truthy(builder'.loop._last_pindex)
     /\ (last.op = "close" /\ pending_is_root /\ last'.op = "add_point") =>
          /\ mesh_count_in(kernel_after, "edge") = mesh_count("edge") + 2
          /\ builder'.loop._last_pindex = last'.val
          /\ builder'.loop._last_eindex # builder.loop._last_eindex]_vars

\* C36 witness: close() has returned on a builder started from a point
\* that resolves, after an add_point call that passed the root point again.
C36_Witness ==
  /\ last.op = "close"
  /\ builder.from = "point" /\ builder.closes = 1
  /\ pending_is_root
  /\ ~is_null(kernel_get("point", builder.loop._root_pindex))
  /\ Len(builder.given) >= 1
  /\ builder.given[Len(builder.given)] = builder.loop._root_pindex
  /\ truthy(builder.loop._root_eindex)

\* C37: remove is idempotent per handle: a remove call that follows a
\* remove call of the same arena with the same handle leaves the cells and
\* the queue of the arena as the first call left them, whatever the
\* generation of the handle (0 and the invalid handle included); and a
\* remove call whose handle does not resolve changes nothing.
C37_RemoveIdempotent ==
  [][/\ (/\ last.op = "remove" /\ last.hit
         /\ last'.op = "remove" /\ last'.hit
         /\ last'.kind = last.kind
         /\ last'.index = last.index) =>
          /\ collection' = collection
          /\ free_cells' = free_cells
     /\ (last'.op = "remove" /\ ~last'.hit) =>
          /\ collection' = collection
          /\ free_cells' = free_cells]_vars

\* C38: in every state the builders lead to, next and prev are mutually
\* inverse: when the next handle of a live edge e resolves to an edge f, the
\* prev handle of f resolves to e, and when the prev handle of e resolves
\* to an edge g, the next handle of g resolves to e.
C38_NextPrevInverse ==
  \A o \in live_offsets(kernel, "edge") :
    LET e == collection["edge"][o + 1].val
        f == kernel_get("edge", e.next_index)
        g == kernel_get("edge", e.prev_index)
    IN /\ (truthy(e.next_index) /\ ~is_null(f)) =>
            /\ f.val.prev_index.offset = o
            /\ ~is_null(kernel_get("edge", f.val.prev_index))
       /\ (truthy(e.prev_index) /\ ~is_null(g)) =>
            /\ g.val.next_index.offset = o
            /\ ~is_null(kernel_get("edge", g.val.next_index))

\* C39: after a first triangle and add_triangle(e, p) on an edge e of its
\* face, the adjacent edge t of e is the root edge of the new face and runs
\* opposite to e between the same two points: the origin point of t is the
\* origin point of the next edge of e, and the origin point of e is the
\* origin point of the next edge of t.
C39_TwinsRunOpposite ==
  (/\ add_triangle_returned
   /\ last.val.form \in {"edge_point", "edge_pindex"}
   /\ first_triangle(last.val.before)
   /\ last.val.eindex \in {index_t(1, 1), index_t(3, 1), index_t(5, 1)}
   /\ truthy(last.index)) =>
    LET e == kernel_get("edge", last.val.eindex).val
        t == kernel_get("edge", e.adjacent_index).val
    IN /\ face_fn_root_edge(kernel, mesh_fn(last.index))._index
            = e.adjacent_index
       /\ truthy(origin_point(e.adjacent_index))
       /\ truthy(origin_point(last.val.eindex))
       /\ origin_point(e.adjacent_index) = origin_point(e.next_index)
       /\ origin_point(last.val.eindex) = origin_point(t.next_index)

====
